---- MODULE Spec2Model ----
(***************************************************************************)
(* couchspinner, src/App.js: ingestion of a dropped export file (zip or    *)
(* json), the identity index built from its visit records, and the         *)
(* sessionStorage cache of the last state.                                 *)
(*                                                                         *)
(* JavaScript values are records tagged by a field t; leaves (ids, names,  *)
(* dates) are strings, the string "undefined" standing for undefined.      *)
(***************************************************************************)
EXTENDS Integers, Sequences, FiniteSets, TLC

\* ------------------------------------------------------------- bounds
\* onDrop invocations in one browser session
MaxDrops == 2
\* page refreshes in one browser session
MaxReloads == 1
\* sessionStorage.setItem calls that throw in one browser session
MaxWriteFailures == 1
\* records in each visit collection of the documents given to getNamesFromJson
MaxVisits == 2

\* ------------------------------------------------------------- JS values
Undefined == "undefined"
Absent == [t |-> "undefined"]
JNull == [t |-> "null"]
JFalse == [t |-> "false"]
\* a truthy value that is not an array (a string such as "none")
JString == [t |-> "string"]
JArray(items) == [t |-> "array", items |-> items]

\* const EXAMPLE_PROFILE = ''
EXAMPLE_PROFILE == [t |-> "emptystring"]

\* JavaScript truthiness, as used by ||, ! and if
Truthy(v) == v.t \notin {"undefined", "null", "false", "emptystring"}

\* o?.field for a field holding an object
Get(o, field) ==
  IF o.t = "obj" /\ field \in DOMAIN o THEN o[field] ELSE Absent

\* o?.field for a field holding a leaf
GetLeaf(o, field) ==
  IF o.t = "obj" /\ field \in DOMAIN o THEN o[field] ELSE Undefined

\* ------------------------------------------------------------- getNamesFromJson
\* new Map()
EmptyMap == [k \in {} |-> Undefined]

\* a Map whose set keeps the first value written under a key
MapSetKeepFirst(m, key, value) ==
  [k \in (DOMAIN m) \cup {key} |-> IF k \in DOMAIN m THEN m[k] ELSE value]

\* names.set(key, value)
MapSet(m, key, value) ==
  [k \in (DOMAIN m) \cup {key} |-> IF k = key THEN value ELSE m[k]]

\* const person = visit?.surfer || visit?.host || {}
PersonOf(visit) ==
  IF Truthy(Get(visit, "surfer")) THEN Get(visit, "surfer")
  ELSE IF Truthy(Get(visit, "host")) THEN Get(visit, "host")
  ELSE [t |-> "obj"]

collectName(m, visit) ==
  LET person == PersonOf(visit)
      username == GetLeaf(person, "username")
      id == GetLeaf(Get(person, "profile"), "id")
      displayName == GetLeaf(Get(person, "profile"), "display_name")
  IN MapSet(m, id, [displayName |-> displayName, username |-> username])

\* Array.prototype.forEach(collectName), the Map threaded through
RECURSIVE forEachCollect(_, _)
forEachCollect(m, items) ==
  IF items = << >> THEN m
  ELSE forEachCollect(collectName(m, Head(items)), Tail(items))

\* a truthy collection without forEach makes the call throw a TypeError
NotIterable(coll) == Truthy(coll) /\ coll.t # "array"

getNamesFromJson(json) ==
  LET hosts == Get(Get(json, "couch_visits"), "host_couch_visits")
      surfers == Get(Get(json, "couch_visits"), "surfer_couch_visits")
      afterHosts == IF Truthy(hosts) /\ ~NotIterable(hosts)
                    THEN forEachCollect(EmptyMap, hosts.items)
                    ELSE EmptyMap
      afterSurfers == IF Truthy(surfers) /\ ~NotIterable(surfers)
                      THEN forEachCollect(afterHosts, surfers.items)
                      ELSE afterHosts
  IN IF NotIterable(hosts) \/ NotIterable(surfers)
     THEN [threw |-> TRUE, names |-> EmptyMap]
     ELSE [threw |-> FALSE, names |-> afterSurfers]

\* ------------------------------------------------------------- documents
MkProfile(id, displayName) ==
  [t |-> "obj", id |-> id, display_name |-> displayName]
MkPerson(username, prof) ==
  [t |-> "obj", username |-> username, profile |-> prof]
MkVisit(surfer, host) == [t |-> "obj", surfer |-> surfer, host |-> host]
MkDoc(hosts, surfers) ==
  [t |-> "obj",
   couch_visits |-> [t |-> "obj", host_couch_visits |-> hosts,
                     surfer_couch_visits |-> surfers]]

Ann == MkPerson("ann", MkProfile("1", "Ann"))
Anna == MkPerson("anna", MkProfile("1", "Anna"))
Bob == MkPerson("bob", MkProfile("2", "Bob"))
\* a person whose profile has no id
NoId == MkPerson("ghost", [t |-> "obj", display_name |-> "Ghost"])
\* a person without a profile
NoProfile == [t |-> "obj", username |-> "bare"]

\* the visit records the documents are built from
Visits ==
  { MkVisit(Ann, Absent), MkVisit(Absent, Anna), MkVisit(Bob, Ann),
    MkVisit(NoId, Absent), MkVisit(Absent, NoProfile),
    MkVisit(Absent, Absent), JNull }

RECURSIVE SeqsUpTo(_, _)
SeqsUpTo(S, n) ==
  IF n = 0 THEN { << >> }
  ELSE LET shorter == SeqsUpTo(S, n - 1)
       IN shorter \cup { Append(s, x) : s \in shorter, x \in S }

Collections == { Absent } \cup { JArray(s) : s \in SeqsUpTo(Visits, MaxVisits) }

\* the documents the dropped files carry
DocA ==
  MkDoc(JArray(<< MkVisit(Ann, Absent) >>),
        JArray(<< MkVisit(Absent, Anna), MkVisit(Bob, Absent) >>))
DocB == MkDoc(Absent, JArray(<< MkVisit(NoId, Absent) >>))
\* a document whose host_couch_visits is a string
DocBadVisits == MkDoc(JString, Absent)

\* ------------------------------------------------------------- JSON text
\* A JSON text is the tree it denotes. Numbers are kept at the top of the
\* tree and in the member "rating" of an object: a number of a text is its
\* literal, a number of a value is the double it denotes.
JNumber(n) == [t |-> "number", n |-> n]

\* the double a number literal denotes: 1e999 is beyond the range of a
\* double and denotes Infinity
NumberOfLiteral(v) ==
  IF v.t = "number" /\ v.n = "1e999" THEN JNumber("Infinity") ELSE v

\* the JSON of a double: Infinity and NaN are written as null
LiteralOfNumber(v) ==
  IF v.t = "number" /\ v.n \in {"Infinity", "NaN"} THEN JNull ELSE v

\* JSON.stringify(value)
Stringify(value) ==
  [t |-> "text",
   v |-> IF value.t = "obj" /\ "rating" \in DOMAIN value
         THEN [value EXCEPT !.rating = LiteralOfNumber(@)]
         ELSE LiteralOfNumber(value)]
\* a text that is not JSON
Malformed == [t |-> "text", v |-> [t |-> "syntaxerror"]]

\* JSON.parse(text); JSON.parse(null) is null
JSONparse(text) ==
  IF text.t = "null" THEN [threw |-> FALSE, value |-> JNull]
  ELSE IF text.v.t = "syntaxerror" THEN [threw |-> TRUE, value |-> Absent]
  ELSE [threw |-> FALSE,
        value |-> IF text.v.t = "obj" /\ "rating" \in DOMAIN text.v
                  THEN [text.v EXCEPT !.rating = NumberOfLiteral(@)]
                  ELSE NumberOfLiteral(text.v)]

\* the texts a dropped json file can hold
FileTexts ==
  { Stringify(DocA), Stringify(JNull), Stringify(DocBadVisits), Malformed }

\* ------------------------------------------------------------- archives
\* a JSZip entry: its name split at the dots, its dir flag, what
\* async('string') gives and whether async('blob') succeeds
Entry(name, dir, text, blobOk) ==
  [name |-> name, dir |-> dir, text |-> text, blobOk |-> blobOk]
JsonEntry(base, ext, doctext) == Entry(<< base, ext >>, FALSE, doctext, TRUE)
ImageEntry(base, ext, ok) == Entry(<< base, ext >>, FALSE, Malformed, ok)
DirEntry(base) == Entry(<< base >>, TRUE, Malformed, TRUE)

\* zipEntry.name.split('.').pop()
Extension(e) == e.name[Len(e.name)]

IsJsonFile(e) == ~e.dir /\ Extension(e) = "json"
IsImageFile(e) == ~e.dir /\ Extension(e) \in {"jpg", "gif", "png"}

\* zip.filter(predicate), in the order of the entries
JsonFiles(zip) == SelectSeq(zip, IsJsonFile)
ImageFiles(zip) == SelectSeq(zip, IsImageFile)

\* the archives jszip.loadAsync can resolve with
Archives ==
  { << ImageEntry("a", "png", TRUE) >>,
    << JsonEntry("p", "json", Malformed) >>,
    << JsonEntry("p", "json", Stringify(JFalse)) >>,
    << JsonEntry("p", "json", Stringify(DocB)),
       ImageEntry("a", "jpg", TRUE), ImageEntry("b", "png", TRUE) >>,
    << DirEntry("d/"), JsonEntry("P", "JSON", Stringify(DocA)),
       JsonEntry("p", "json", Stringify(DocB)),
       JsonEntry("q", "json", Stringify(DocA)),
       ImageEntry("x", "PNG", TRUE) >>,
    << JsonEntry("p", "json", Stringify(DocB)),
       ImageEntry("a", "jpg", TRUE), ImageEntry("c", "gif", FALSE) >>,
    << JsonEntry("p", "json", Stringify(DocBadVisits)) >> }

\* ------------------------------------------------------------- dropped files
ZIP == "application/zip"
JSON == "application/json"
FileTypes == {ZIP, JSON, "text/plain"}
Dates == {"2020-05-20"}

\* Date.prototype.toString()
DateToString(d) == IF d = "2020-05-20" THEN "Wed May 20 2020" ELSE "Invalid Date"

File(type, lastModifiedDate) ==
  [type |-> type, lastModifiedDate |-> lastModifiedDate]
\* the files dropped: a zip file without date, a json file with a date and
\* files of another type with and without date
Files ==
  { File(ZIP, Undefined) } \cup { File(JSON, d) : d \in Dates }
    \cup { File("text/plain", d) : d \in Dates \cup {Undefined} }

\* what react-dropzone hands to onDrop: no file, one file, several files
AcceptedFiles ==
  { << >> } \cup { << f >> : f \in Files }
            \cup { << File(ZIP, Undefined), File(JSON, "2020-05-20") >> }

\* ------------------------------------------------------------- state
VARIABLES
  profile,            \* useState: the document, '' when there is none
  profileImages,      \* useState: the assets, a sequence of {blobUrl, id}
  names,              \* useState: the identity index, a Map
  fileDate,           \* useState: the date string of the dropped file
  isProcessing,       \* useState: the processing flag
  isStorageAvailable, \* testStorage('sessionStorage')
  storage,            \* window.sessionStorage under STORAGE_PREFIX
  effectPending,      \* the useEffect that saves the state has yet to run
  inv,                \* the invocations of onDrop: position and locals
  urls,               \* the object URLs created and not revoked
  drops,              \* onDrop invocations so far
  reloads,            \* page refreshes so far
  failures,           \* setItem calls that threw and were reported so far
  last,               \* how the invocation that ended last ended
  njson,              \* the argument of a call of getNamesFromJson
  nresult,            \* what that call gave
  cached              \* what a call of loadFromCache gave

react == << profile, profileImages, names, fileDate, isProcessing >>
session == << profile, profileImages, names, fileDate >>
vars == << profile, profileImages, names, fileDate, isProcessing,
           isStorageAvailable, storage, effectPending, inv, urls, drops,
           reloads, failures, last, njson, nresult, cached >>

Invocations == 1..MaxDrops
NoResult == [threw |-> FALSE, names |-> EmptyMap, called |-> FALSE]

\* an invocation that has not started, and the locals of one that has ended
\* pc: where the invocation is; zip, json, dec: the locals of extractZip (dec
\* is the state of each image's decode); captured: Sentry.captureException
\* was called; path: the branch of the code that was taken; count, type,
\* date: how many files were dropped, the media type and the
\* lastModifiedDate of the first
NoLocals ==
  [pc |-> "idle", zip |-> << >>, json |-> Absent, dec |-> << >>,
   captured |-> FALSE, path |-> "none", count |-> 0, type |-> "none",
   date |-> Undefined]

\* the invocation has returned or has rejected; "threw" is an invocation
\* that has rejected while decodes it started are still running
Ended == {"ended", "threw"}

\* how an invocation ended: how, "returned" or "threw"; alert, the message
\* shown; err, the error it rejected with; captured, path, count, type and
\* zip as in its locals
NoOutcome ==
  [how |-> "none", alert |-> "none", err |-> "none", captured |-> FALSE,
   path |-> "none", count |-> 0, type |-> "none", zip |-> << >>]

EmptyStorage == [file_date |-> JNull, profile |-> JNull, profile_images |-> JNull]

\* ------------------------------------------------------------- the cache
\* a loadFromCache that reads the three entries and derives no index
loadFromCacheNoNames(store) ==
  LET p == JSONparse(store.profile)
      i == JSONparse(store.profile_images)
  IN [cachedFileDate |-> store.file_date, cachedNames |-> Absent,
      cachedProfile |-> IF p.threw THEN Absent ELSE p.value,
      cachedProfileImages |-> IF p.threw \/ i.threw THEN Absent ELSE i.value]

\* loadFromCache(): each read in turn inside one try block; what was not
\* assigned before a throw stays undefined
loadFromCache(store) ==
  LET cachedFileDate == store.file_date
      p == JSONparse(store.profile)
      i == JSONparse(store.profile_images)
      n == IF Truthy(p.value) THEN getNamesFromJson(p.value)
           ELSE [threw |-> FALSE, names |-> EmptyMap]
      none == [cachedFileDate |-> cachedFileDate, cachedNames |-> Absent,
               cachedProfile |-> Absent, cachedProfileImages |-> Absent]
  IN IF p.threw THEN none
     ELSE IF i.threw THEN [none EXCEPT !.cachedProfile = p.value]
     ELSE IF n.threw
       THEN [none EXCEPT !.cachedProfile = p.value,
                         !.cachedProfileImages = i.value]
     ELSE [none EXCEPT !.cachedProfile = p.value,
                       !.cachedProfileImages = i.value,
                       !.cachedNames =
                          IF Truthy(p.value)
                          THEN [t |-> "map", m |-> n.names] ELSE Absent]

\* lines 170-171: isStorageAvailable ? loadFromCache() : {}
loadIfAvailable(available, store) ==
  IF available THEN loadFromCache(store)
  ELSE [cachedFileDate |-> Absent, cachedNames |-> Absent,
        cachedProfile |-> Absent, cachedProfileImages |-> Absent]

\* no call of loadFromCache was observed yet
NotLoaded == [called |-> FALSE, value |-> loadIfAvailable(FALSE, EmptyStorage)]

\* the initial values of the useState hooks of App
Mount(available, store) ==
  LET c == loadIfAvailable(available, store)
  IN [profile |-> IF Truthy(c.cachedProfile) THEN c.cachedProfile
                  ELSE EXAMPLE_PROFILE,
      profileImages |-> IF Truthy(c.cachedProfileImages)
                        THEN c.cachedProfileImages.items ELSE << >>,
      names |-> IF Truthy(c.cachedNames) THEN c.cachedNames.m ELSE EmptyMap,
      fileDate |-> IF c.cachedFileDate.t = "raw" /\ c.cachedFileDate.s # ""
                   THEN c.cachedFileDate.s ELSE ""]

Init ==
  /\ isStorageAvailable \in BOOLEAN
  /\ storage = EmptyStorage
  /\ LET m == Mount(isStorageAvailable, storage)
     IN /\ profile = m.profile
        /\ profileImages = m.profileImages
        /\ names = m.names
        /\ fileDate = m.fileDate
  /\ isProcessing = FALSE
  /\ effectPending = TRUE
  /\ inv = [p \in Invocations |-> NoLocals]
  /\ urls = {}
  /\ drops = 0
  /\ reloads = 0
  /\ failures = 0
  /\ last = NoOutcome
  /\ njson = JNull
  /\ nresult = NoResult
  /\ cached = NotLoaded

\* the store at the start of the effect: store, the entries; captured, the
\* calls of Sentry.captureException; propagated, an exception has left the
\* effect, and the statements after it do not run
Saving(store) == [store |-> store, captured |-> 0, propagated |-> FALSE]

\* a setCacheValue without try and catch: the exception of setItem leaves it
setCacheValueNoCatch(c, key, value, ok) ==
  IF c.propagated THEN c
  ELSE IF ok THEN [c EXCEPT !.store[key] = value]
  ELSE [c EXCEPT !.propagated = TRUE]

\* setCacheValue(key, value): a setItem that throws leaves the entry as it
\* was; the exception is caught and reported
setCacheValue(c, key, value, ok) ==
  IF c.propagated THEN c
  ELSE IF ok THEN [c EXCEPT !.store[key] = value]
  ELSE [c EXCEPT !.captured = @ + 1]

\* the useEffect of App: three writes, each of which may throw
SaveEffect ==
  /\ effectPending
  /\ effectPending' = FALSE
  /\ IF isStorageAvailable
     THEN \E ok \in [{"file_date", "profile_images", "profile"} -> BOOLEAN] :
            LET thrown == Cardinality({k \in DOMAIN ok : ~ok[k]})
                s1 == setCacheValue(Saving(storage), "file_date",
                                    [t |-> "raw", s |-> fileDate],
                                    ok["file_date"])
                s2 == setCacheValue(s1, "profile_images",
                                    Stringify(JArray(profileImages)),
                                    ok["profile_images"])
                s3 == setCacheValue(s2, "profile", Stringify(profile),
                                    ok["profile"])
            IN /\ failures + thrown <= MaxWriteFailures
               /\ failures' = failures + s3.captured
               /\ storage' = s3.store
     ELSE UNCHANGED << storage, failures >>
  /\ UNCHANGED << react, isStorageAvailable, inv, urls, drops, reloads,
                  last, njson, nresult, cached >>

\* a page refresh: App mounts again from the cache, the invocations in
\* flight and the object URLs of the old page are gone
Reload ==
  /\ reloads < MaxReloads
  /\ reloads' = reloads + 1
  /\ LET m == Mount(isStorageAvailable, storage)
     IN /\ profile' = m.profile
        /\ profileImages' = m.profileImages
        /\ names' = m.names
        /\ fileDate' = m.fileDate
  /\ isProcessing' = FALSE
  /\ effectPending' = TRUE
  /\ inv' = [p \in Invocations |->
               IF inv[p].pc = "idle" THEN inv[p]
               ELSE [NoLocals EXCEPT !.pc = "ended"]]
  /\ last' = NoOutcome
  /\ urls' = {}
  /\ UNCHANGED << isStorageAvailable, storage, drops, failures, njson,
                  nresult, cached >>

\* ------------------------------------------------------------- onDrop
\* the drop container is rendered only while there is no profile
DropzoneRendered == ~Truthy(profile)

ZipOrJsonAlert == "Please drop either the zip file or json file."
NoJsonInZipAlert ==
  "Please drop a zip file which contains the profile json file."
FunkyAlert == "File is little too funky for us to understand"

\* the invocation returns after alert(message), or with no alert
Return(p, loc, message, path) ==
  /\ inv' = [inv EXCEPT ![p] = [NoLocals EXCEPT !.pc = "ended"]]
  /\ last' = [how |-> "returned", alert |-> message, err |-> "none",
              captured |-> loc.captured, path |-> path, count |-> loc.count,
              type |-> loc.type, zip |-> loc.zip]

\* the invocation rejects with an error nobody catches; the decodes that
\* are still running keep running
Throw(p, loc, err) ==
  LET running == \E i \in DOMAIN loc.dec : loc.dec[i] = "pending"
  IN /\ inv' = [inv EXCEPT ![p] =
                  IF running
                  THEN [NoLocals EXCEPT !.pc = "threw", !.zip = loc.zip,
                                        !.dec = loc.dec]
                  ELSE [NoLocals EXCEPT !.pc = "ended"]]
     /\ last' = [how |-> "threw", alert |-> "none", err |-> err,
                 captured |-> loc.captured, path |-> err, count |-> loc.count,
                 type |-> loc.type, zip |-> loc.zip]

\* a type check that lets every media type through
SupportedTypesAny == FileTypes

\* line 204: the media types onDrop takes
SupportedTypes == {ZIP, JSON}

\* lines 190-216, 229-230: from the call to the first await
DropStart(p, acceptedFiles) ==
  LET n == Len(acceptedFiles)
      loc == [NoLocals EXCEPT
                !.count = n,
                !.type = IF n = 0 THEN "none" ELSE acceptedFiles[1].type]
  IN IF n = 0
     THEN /\ isProcessing' = FALSE
          /\ Return(p, loc, "No files?", "NoFiles")
          /\ UNCHANGED session
     ELSE IF n # 1
     THEN /\ isProcessing' = FALSE
          /\ Return(p, loc, "Just one file please.", "ManyFiles")
          /\ UNCHANGED session
     ELSE LET file == acceptedFiles[1]
          IN IF file.type \notin SupportedTypes
             THEN /\ isProcessing' = FALSE
                  /\ Return(p, loc, ZipOrJsonAlert, "UnsupportedType")
                  /\ UNCHANGED session
             ELSE /\ isProcessing' = TRUE
                  /\ fileDate' = IF file.lastModifiedDate # Undefined
                                 THEN DateToString(file.lastModifiedDate)
                                 ELSE fileDate
                  /\ inv' = [inv EXCEPT ![p] =
                               [loc EXCEPT
                                  !.pc = IF file.type = ZIP THEN "loadAsync"
                                         ELSE "readBlobFile",
                                  !.date = file.lastModifiedDate]]
                  /\ UNCHANGED << profile, profileImages, names, last >>

\* the user drops files on the drop container
Drop(p) ==
  /\ DropzoneRendered
  /\ ~effectPending
  /\ drops < MaxDrops
  /\ p = drops + 1
  /\ drops' = drops + 1
  /\ \E acceptedFiles \in AcceptedFiles : DropStart(p, acceptedFiles)
  /\ effectPending' = (fileDate' # fileDate)
  /\ UNCHANGED << isStorageAvailable, storage, urls, reloads, failures,
                  njson, nresult, cached >>

\* Promise.allSettled over the decodes: fulfilled once none is pending
PromiseAllSettled(dec) ==
  IF \E i \in DOMAIN dec : dec[i] = "pending" THEN "pending" ELSE "fulfilled"

\* Promise.all over the decodes: rejected as soon as one has failed,
\* fulfilled once all have succeeded
PromiseAll(dec) ==
  IF \E i \in DOMAIN dec : dec[i] = "failed" THEN "rejected"
  ELSE IF \E i \in DOMAIN dec : dec[i] = "pending" THEN "pending"
  ELSE "fulfilled"

\* the {blobUrl, id} of the decoded images, in the order of the files
ImagesOf(p, zip, dec) ==
  LET files == ImageFiles(zip)
      made == SelectSeq([i \in DOMAIN dec |-> [k |-> i, s |-> dec[i]]],
                        LAMBDA d : d.s = "ok")
  IN [j \in DOMAIN made |->
        [blobUrl |-> << p, made[j].k >>, id |-> files[made[j].k].name]]

\* lines 217-228, 247: onDrop once extractZip has resolved
ZipDone(p, loc, images) ==
  IF ~Truthy(loc.json)
  THEN /\ isProcessing' = FALSE
       /\ Return(p, loc, NoJsonInZipAlert, loc.path)
       /\ UNCHANGED << session, effectPending >>
  ELSE LET r == getNamesFromJson(loc.json)
       IN IF r.threw
          THEN /\ Throw(p, loc, "TypeError")
               /\ UNCHANGED << react, effectPending >>
          ELSE /\ profile' = loc.json
               /\ names' = r.names
               /\ profileImages' = images
               /\ isProcessing' = FALSE
               /\ effectPending' = TRUE
               /\ Return(p, loc, "none", "ok")
               /\ UNCHANGED fileDate

\* lines 37-55: getImagesFromZip starts one decode per image file; with no
\* image file Promise.all is fulfilled at once and onDrop goes on
ImagesStart(p, loc) ==
  LET n == Len(ImageFiles(loc.zip))
  IN IF n = 0
     THEN ZipDone(p, loc, << >>)
     ELSE /\ inv' = [inv EXCEPT ![p] =
                       [loc EXCEPT !.pc = "images",
                                   !.dec = [i \in 1..n |-> "pending"]]]
          /\ UNCHANGED << react, effectPending, last >>

\* lines 17-33: getJsonFromZip; false when there is no json file or when
\* its text does not parse
getJsonFromZip(loc) ==
  LET files == JsonFiles(loc.zip)
      parsed == JSONparse(files[1].text)
  IN IF Len(files) = 0
     THEN [loc EXCEPT !.json = JFalse, !.path = "NoDocumentFound"]
     ELSE IF parsed.threw
     THEN [loc EXCEPT !.json = JFalse, !.captured = TRUE,
                      !.path = "MalformedDocument"]
     ELSE [loc EXCEPT !.json = parsed.value,
                      !.path = IF Truthy(parsed.value) THEN "none"
                               ELSE "FalsyDocument"]

\* lines 61-63: jszip.loadAsync settles, getJsonFromZip reads and parses
\* the json file, getImagesFromZip starts. The awaits of lines 61 and 25
\* are taken in one step: between them only locals of the invocation change
LoadAsync(p) ==
  /\ inv[p].pc = "loadAsync"
  /\ ~effectPending
  /\ \/ /\ Throw(p, inv[p], "CorruptArchive")
        /\ UNCHANGED << react, effectPending >>
     \/ \E zip \in Archives :
          ImagesStart(p, getJsonFromZip([inv[p] EXCEPT !.zip = zip]))
  /\ UNCHANGED << isStorageAvailable, storage, urls, drops, reloads,
                  failures, njson, nresult, cached >>

\* lines 44-55: one decode settles; createObjectURL on success; Promise.all
\* may settle with it, and then extractZip and onDrop go on
DecodeSettle(p, i) ==
  /\ inv[p].pc \in {"images", "threw"}
  /\ i \in DOMAIN inv[p].dec
  /\ inv[p].dec[i] = "pending"
  /\ ~effectPending
  /\ LET ok == ImageFiles(inv[p].zip)[i].blobOk
         dec == [inv[p].dec EXCEPT ![i] = IF ok THEN "ok" ELSE "failed"]
         loc == [inv[p] EXCEPT !.dec = dec]
         running == \E k \in DOMAIN dec : dec[k] = "pending"
     IN /\ urls' = IF ok THEN urls \cup {<< p, i >>} ELSE urls
        /\ IF inv[p].pc = "threw"
           THEN /\ inv' = [inv EXCEPT ![p] =
                             IF running THEN loc
                             ELSE [NoLocals EXCEPT !.pc = "ended"]]
                /\ UNCHANGED << react, effectPending, last >>
           ELSE IF PromiseAll(dec) = "rejected"
           THEN /\ Throw(p, loc, "AssetDecodeError")
                /\ UNCHANGED << react, effectPending >>
           ELSE IF PromiseAll(dec) = "fulfilled"
           THEN ZipDone(p, loc, ImagesOf(p, loc.zip, dec))
           ELSE /\ inv' = [inv EXCEPT ![p] = loc]
                /\ UNCHANGED << react, effectPending, last >>
  /\ UNCHANGED << isStorageAvailable, storage, drops, reloads, failures,
                  njson, nresult, cached >>

\* lines 230-247: readBlobFile settles. file.text() can reject; the
\* FileReader of the fallback has no onerror, so a failed read never
\* settles and the invocation stays where it is
ReadBlobFile(p) ==
  /\ inv[p].pc = "readBlobFile"
  /\ ~effectPending
  /\ \/ /\ Throw(p, inv[p], "ReadError")
        /\ UNCHANGED << react, effectPending >>
     \/ \E jsonProfile \in FileTexts :
          LET parsed == JSONparse(jsonProfile)
              r == getNamesFromJson(parsed.value)
          IN IF parsed.threw \/ r.threw
             THEN /\ isProcessing' = FALSE
                  /\ Return(p, [inv[p] EXCEPT !.captured = TRUE], FunkyAlert,
                            IF parsed.threw THEN "MalformedFile"
                            ELSE "TypeError")
                  /\ UNCHANGED << session, effectPending >>
             ELSE /\ profile' = parsed.value
                  /\ names' = r.names
                  /\ isProcessing' = FALSE
                  /\ effectPending' = TRUE
                  /\ Return(p, inv[p], "none", "ok")
                  /\ UNCHANGED << profileImages, fileDate >>
  /\ UNCHANGED << isStorageAvailable, storage, urls, drops, reloads,
                  failures, njson, nresult, cached >>

Next ==
  \/ \E p \in Invocations : Drop(p)
  \/ \E p \in Invocations : LoadAsync(p)
  \/ \E p \in Invocations : \E i \in DOMAIN inv[p].dec : DecodeSettle(p, i)
  \/ \E p \in Invocations : ReadBlobFile(p)
  \/ SaveEffect
  \/ Reload

Spec == Init /\ [][Next]_vars

\* ------------------------------------------------------------- getNamesFromJson alone
\* a call of getNamesFromJson on a document whose visit collections are
\* arrays of up to MaxVisits records, absent, null or a string
NamesDocs ==
  { MkDoc(h, s) : h \in Collections \cup {JNull, JString},
                  s \in Collections \cup {JNull, JString} }

InitNames ==
  /\ njson \in NamesDocs
  /\ nresult = NoResult
  /\ cached = NotLoaded
  /\ isStorageAvailable = FALSE
  /\ storage = EmptyStorage
  /\ profile = EXAMPLE_PROFILE
  /\ profileImages = << >>
  /\ names = EmptyMap
  /\ fileDate = ""
  /\ isProcessing = FALSE
  /\ effectPending = TRUE
  /\ inv = [p \in Invocations |-> NoLocals]
  /\ urls = {}
  /\ drops = 0
  /\ reloads = 0
  /\ failures = 0
  /\ last = NoOutcome

CallGetNames ==
  /\ ~nresult.called
  /\ LET r == getNamesFromJson(njson)
     IN nresult' = [threw |-> r.threw, names |-> r.names, called |-> TRUE]
  /\ UNCHANGED << react, isStorageAvailable, storage, effectPending, inv,
                  urls, drops, reloads, failures, last, njson, cached >>

NextNames == CallGetNames

SpecNames == InitNames /\ [][NextNames]_vars

\* ------------------------------------------------------------- the cache alone
\* a document with a number beyond the range of a double, as JSON.parse
\* gives it
DocHuge == [t |-> "obj", couch_visits |-> Absent, rating |-> JNumber("Infinity")]
DocRated == [t |-> "obj", couch_visits |-> Absent, rating |-> JNumber("5")]

AnImage == [blobUrl |-> << 1, 1 >>, id |-> << "a", "jpg" >>]

\* what sessionStorage can hold under the three keys: nothing, what the
\* effect writes, or a text another writer left
Stores ==
  [file_date : { JNull, [t |-> "raw", s |-> ""],
                 [t |-> "raw", s |-> "Wed May 20 2020"] },
   profile : { JNull, Malformed, Stringify(EXAMPLE_PROFILE), Stringify(DocA),
               Stringify(DocBadVisits) },
   profile_images : { JNull, Malformed, Stringify(JArray(<< >>)),
                      Stringify(JArray(<< AnImage >>)) }]

\* the documents an ingestion can have committed, '' when there was none
SessionDocs == { EXAMPLE_PROFILE, JNull, DocA, DocB, DocRated, DocHuge }

InitCache ==
  /\ isStorageAvailable \in BOOLEAN
  /\ storage \in Stores
  /\ profile \in SessionDocs
  /\ names = getNamesFromJson(profile).names
  /\ profileImages \in { << >>, << AnImage >> }
  /\ fileDate \in { "", "Wed May 20 2020" }
  /\ isProcessing = FALSE
  /\ effectPending = TRUE
  /\ inv = [p \in Invocations |-> NoLocals]
  /\ urls = {}
  /\ drops = 0
  /\ reloads = 0
  /\ failures = 0
  /\ last = NoOutcome
  /\ njson = JNull
  /\ nresult = NoResult
  /\ cached = NotLoaded

\* lines 170-171: a call of loadFromCache, before or after the effect
LoadCache ==
  /\ ~cached.called
  /\ cached' = [called |-> TRUE,
                value |-> loadIfAvailable(isStorageAvailable, storage)]
  /\ UNCHANGED << react, isStorageAvailable, storage, effectPending, inv,
                  urls, drops, reloads, failures, last, njson, nresult >>

NextCache == SaveEffect \/ LoadCache

SpecCache == InitCache /\ [][NextCache]_vars

\* ------------------------------------------------------------- properties
\* invocation p returns or rejects in this step (a page refresh is not an end)
EndsIn(p) ==
  /\ reloads' = reloads
  /\ inv[p].pc \notin Ended
  /\ inv'[p].pc \in Ended

\* a step of invocation p
StepOf(p) == reloads' = reloads /\ inv'[p] # inv[p]

\* the state a page shows before anything was cached
FreshSession ==
  /\ profile = EXAMPLE_PROFILE
  /\ profileImages = << >>
  /\ names = EmptyMap
  /\ fileDate = ""

\* the file entries of an archive whose lower-cased extension is json
DocumentEntries(zip) ==
  SelectSeq(zip, LAMBDA e : ~e.dir /\ Extension(e) \in {"json", "JSON"})
\* the file entries of an archive that are images
ImageEntries(zip) ==
  SelectSeq(zip, LAMBDA e : ~e.dir /\ Extension(e) \in
                               {"jpg", "gif", "png", "JPG", "GIF", "PNG"})

\* C1: every invocation of onDrop, whatever its outcome, leaves Processing
\* false when it ends.
C1_ProcessingClearedAtEnd ==
  [][\A p \in Invocations : EndsIn(p) => ~isProcessing']_vars

\* C2: whenever a document is present, after a restoration from the cache as
\* after any ingestion, the identity index in state is getNamesFromJson of the
\* document in state.
C2_IndexIsIndexOfDocument ==
  Truthy(profile) =>
    /\ ~getNamesFromJson(profile).threw
    /\ names = getNamesFromJson(profile).names

\* C2 witness: a page just restored from the cache shows a document with a
\* non-empty index.
C2_Witness ==
  /\ reloads > 0
  /\ last = NoOutcome
  /\ Truthy(profile)
  /\ names # EmptyMap

\* C3: an ingestion that fails with NoDocumentFound (an archive with no
\* document entry) or MalformedDocument (a json file that does not parse)
\* leaves document, assets, file date and index as they were before the drop.
\* Stated for the first drop of a fresh page, where "before the drop" is the
\* fresh session.
C3_FailedIngestionLeavesSession ==
  ( /\ reloads = 0
    /\ drops = 1
    /\ last.how = "returned"
    /\ last.count = 1
    /\ \/ last.type = ZIP /\ Len(DocumentEntries(last.zip)) = 0
       \/ last.path = "MalformedFile" )
  => FreshSession

\* C4: an archive with exactly one well-formed document entry and N image
\* entries is ingested successfully: the document committed is the parsed
\* entry and exactly N assets are committed.
C4_OneDocumentArchiveIsIngested ==
  [][\A p \in Invocations :
       ( /\ EndsIn(p)
         /\ last'.type = ZIP
         /\ Len(DocumentEntries(last'.zip)) = 1
         /\ ~JSONparse(DocumentEntries(last'.zip)[1].text).threw )
       => /\ last'.how = "returned"
          /\ last'.alert = "none"
          /\ profile' = JSONparse(DocumentEntries(last'.zip)[1].text).value
          /\ Len(profileImages') = Len(ImageEntries(last'.zip))]_vars

\* C5: a successful ingestion of a json file commits an empty asset list,
\* whatever assets were in state before.
C5_JsonFileCommitsNoAssets ==
  [][\A p \in Invocations :
       (EndsIn(p) /\ inv[p].pc = "readBlobFile" /\ last'.path = "ok")
       => profileImages' = << >>]_vars

\* C6: a drop of zero files, of several files, or of one file that is neither
\* application/zip nor application/json is rejected: a message is shown,
\* document, assets, file date and index are unchanged, and Processing is
\* false.
C6_BadInputIsRejected ==
  [][\A p \in Invocations :
       LET given == IF inv'[p].pc \in Ended THEN last' ELSE inv'[p]
       IN ( /\ StepOf(p)
            /\ inv[p].pc = "idle"
            /\ \/ given.count # 1
               \/ given.type \notin {"application/zip", "application/json"} )
       => /\ EndsIn(p)
          /\ last'.how = "returned"
          /\ last'.alert # "none"
          /\ UNCHANGED session
          /\ ~isProcessing']_vars

\* C6 witness: a file of an unsupported type was rejected while the file date
\* of an earlier drop was in state and another ingestion was in flight.
C6_Witness ==
  /\ last.path = "UnsupportedType"
  /\ last.alert = ZipOrJsonAlert
  /\ fileDate # ""
  /\ \E q \in Invocations : inv[q].pc \in {"loadAsync", "readBlobFile"}

\* C7: every archive-level or document-level error (CorruptArchive,
\* NoDocumentFound, MalformedDocument, AssetDecodeError) ends the ingestion
\* with a message shown to the user.
C7_EveryErrorShowsMessage ==
  last.path \in {"CorruptArchive", "NoDocumentFound", "MalformedDocument",
                 "MalformedFile", "AssetDecodeError"}
  => last.alert # "none"

\* C8: when the decode of an image of the archive fails, the ingestion
\* commits neither a partial asset list nor the document: no step of it
\* changes document, index or assets, and it ends by rejecting with the
\* decode error.
C8_FailedDecodeCommitsNothing ==
  [][\A p \in Invocations :
       ( /\ StepOf(p)
         /\ inv[p].pc = "images"
         /\ \E i \in DOMAIN ImageEntries(inv[p].zip) :
              ~ImageEntries(inv[p].zip)[i].blobOk )
       => /\ UNCHANGED << profile, names, profileImages >>
          /\ EndsIn(p) => /\ last'.how = "threw"
                          /\ last'.err = "AssetDecodeError"]_vars

\* C8 witness: an ingestion has ended with the decode error after one of its
\* images was decoded, and no asset is in state.
C8_Witness ==
  /\ drops = 1
  /\ last.err = "AssetDecodeError"
  /\ urls # {}
  /\ profileImages = << >>
  /\ ~Truthy(profile)

\* C9: the outcome of an ingestion whose document entry does not parse
\* (MalformedDocument) differs from the outcome of an ingestion of an archive
\* without document entry (NoDocumentFound). The outcome is what onDrop gives
\* its caller and the user: returned or rejected, the error, the message.
C9_MalformedDiffersFromNotFound ==
  [][(last.path = "NoDocumentFound" /\ last'.path = "MalformedDocument")
     => << last.how, last.err, last.alert >>
          # << last'.how, last'.err, last'.alert >>]_vars

\* the records of the host-side collection, then those of the surfer-side
\* collection
RecordsOf(json) ==
  LET hosts == json.couch_visits.host_couch_visits
      surfers == json.couch_visits.surfer_couch_visits
  IN (IF hosts.t = "array" THEN hosts.items ELSE << >>)
     \o (IF surfers.t = "array" THEN surfers.items ELSE << >>)

\* the personId of a record: profile.id of its surfer, else of its host
PersonId(visit) ==
  LET person == IF visit.t = "obj" /\ visit.surfer.t = "obj" THEN visit.surfer
                ELSE IF visit.t = "obj" /\ visit.host.t = "obj" THEN visit.host
                ELSE [t |-> "obj"]
  IN IF "profile" \in DOMAIN person /\ "id" \in DOMAIN person.profile
     THEN person.profile.id ELSE Undefined

\* C10: the index getNamesFromJson returns has as keys exactly the personIds
\* of the host-side and surfer-side records (undefined being one key), and
\* under each key what the last record carrying it, hosts first and surfers
\* after, writes.
C10_IndexIsLastWriteWins ==
  (nresult.called /\ ~nresult.threw) =>
    LET recs == RecordsOf(njson)
    IN /\ DOMAIN nresult.names = { PersonId(recs[i]) : i \in DOMAIN recs }
       /\ \A k \in DOMAIN nresult.names :
            LET lastOf == CHOOSE i \in DOMAIN recs :
                            /\ PersonId(recs[i]) = k
                            /\ \A j \in DOMAIN recs :
                                 j > i => PersonId(recs[j]) # k
            IN nresult.names[k] = collectName(EmptyMap, recs[lastOf])[k]

\* C10 witness: a host-side record and a surfer-side record share a personId
\* and differ in name, and a record has no personId.
C10_Witness ==
  /\ nresult.called
  /\ ~nresult.threw
  /\ njson.couch_visits.host_couch_visits.t = "array"
  /\ njson.couch_visits.surfer_couch_visits.t = "array"
  /\ \E h \in DOMAIN njson.couch_visits.host_couch_visits.items :
       \E s \in DOMAIN njson.couch_visits.surfer_couch_visits.items :
         LET hv == njson.couch_visits.host_couch_visits.items[h]
             sv == njson.couch_visits.surfer_couch_visits.items[s]
         IN /\ PersonId(hv) = "1"
            /\ PersonId(sv) = "1"
            /\ collectName(EmptyMap, hv) # collectName(EmptyMap, sv)
  /\ Undefined \in DOMAIN nresult.names

\* C11: getNamesFromJson raises no error on any document JSON.parse can
\* return: absent collections and records without person, profile, id or name
\* give absent values.
C11_IndexBuilderNeverThrows == nresult.called => ~nresult.threw

\* the invocations that have started and not ended
InFlight == { p \in Invocations : inv[p].pc \notin {"idle"} \cup Ended }

\* C15: the cached file date, document and assets belong to one committed
\* session state. Stated for the first ingestion of a fresh page while it is
\* in flight: nothing was committed but the fresh session, whose file date is
\* the empty string.
C15_CacheIsOneSnapshot ==
  ( /\ reloads = 0
    /\ drops = 1
    /\ InFlight = {1}
    /\ storage.file_date # JNull )
  => storage.file_date = [t |-> "raw", s |-> ""]

\* C16: whenever no ingestion is in flight and no decode is running, the
\* object URLs that are alive are exactly the object URLs of the assets in
\* state: those of replaced assets and of failed ingestions were revoked.
C16_LiveHandlesAreThoseInState ==
  ( /\ InFlight = {}
    /\ \A p \in Invocations : inv[p].pc # "threw" )
  => urls = { profileImages[i].blobUrl : i \in DOMAIN profileImages }

\* C17: Processing is true in every state in which an ingestion has started
\* and not ended.
C17_ProcessingWhileInFlight == InFlight # {} => isProcessing

\* C18: when an ingestion commits its document, the file date in state is
\* the last-modified date of the file the document was parsed from, or the
\* empty string when that file carried none.
C18_FileDateIsThatOfTheDocument ==
  [][\A p \in Invocations :
       (EndsIn(p) /\ last'.path = "ok")
       => fileDate' = IF inv[p].date = Undefined THEN ""
                      ELSE DateToString(inv[p].date)]_vars

\* C19: once extractZip has reported its outcome, no decode of the batch is
\* still running.
C19_NoDecodeRunsAfterOutcome ==
  \A p \in Invocations :
    inv[p].pc \in Ended => \A i \in DOMAIN inv[p].dec : inv[p].dec[i] # "pending"

\* C20: the entries of an archive are classified by the lower-cased
\* extension of their name: the entries getJsonFromZip and getImagesFromZip
\* select are the file entries whose lower-cased extension is json, and jpg,
\* gif or png.
C20_ClassifiedByLowercaseExtension ==
  \A zip \in {last.zip} \cup { inv[p].zip : p \in Invocations } :
    /\ JsonFiles(zip) = DocumentEntries(zip)
    /\ ImageFiles(zip) = ImageEntries(zip)

\* the call of loadFromCache happens in this step
Loads == ~cached.called /\ cached'.called

\* the effect runs in this step
Saves == effectPending /\ ~effectPending'

\* what the effect writes under each key
Intended ==
  [file_date |-> [t |-> "raw", s |-> fileDate],
   profile_images |-> Stringify(JArray(profileImages)),
   profile |-> Stringify(profile)]

\* C12: a loadFromCache after an effect whose three writes succeeded returns
\* the document and the file date of the state that was saved.
C12_SaveThenLoadRoundTrips ==
  [][( /\ Loads
       /\ isStorageAvailable
       /\ ~effectPending
       /\ failures = 0 )
     => /\ cached'.value.cachedProfile = profile
        /\ cached'.value.cachedFileDate = [t |-> "raw", s |-> fileDate]]_vars

\* C13: a setItem that throws is caught and reported, changes no state of
\* App and does not keep the other writes from being made: after the effect
\* every key holds what the effect writes, but for at most one key per
\* exception reported, and that key holds what it held before.
C13_SaveIsBestEffort ==
  [][(Saves /\ isStorageAvailable)
     => /\ UNCHANGED << react, inv, last >>
        /\ \A k \in DOMAIN storage : storage'[k] \in {storage[k], Intended[k]}
        /\ Cardinality({ k \in DOMAIN storage : storage'[k] # Intended[k] })
             <= failures' - failures]_vars

\* C13 witness: the write of the file date has thrown, the key holds what it
\* held before, and the document and the assets were written after it.
C13_Witness ==
  /\ isStorageAvailable
  /\ ~effectPending
  /\ failures = 1
  /\ storage.file_date # Intended.file_date
  /\ storage.profile_images = Intended.profile_images
  /\ storage.profile = Intended.profile
  /\ Truthy(profile)

\* C14: loadFromCache loads each field on its own: without storage every
\* field is absent; with storage, the file date is the entry as stored, and
\* the document and the assets are the parsed entries when their own entry
\* parses, whatever the other entries hold, and absent when it does not.
C14_LoadIsPerField ==
  [][Loads =>
       LET v == cached'.value
           p == JSONparse(storage.profile)
           i == JSONparse(storage.profile_images)
       IN IF ~isStorageAvailable
          THEN v = loadIfAvailable(FALSE, storage)
          ELSE /\ v.cachedFileDate = storage.file_date
               /\ p.threw => ~Truthy(v.cachedProfile)
               /\ i.threw => ~Truthy(v.cachedProfileImages)
               /\ (~p.threw /\ Truthy(p.value)) => v.cachedProfile = p.value
               /\ (~i.threw /\ Truthy(i.value))
                    => v.cachedProfileImages = i.value]_vars

====
